---------------------------- MODULE Spec2Model ----------------------------
(***************************************************************************)
(* A model of the trade-export analysis application:                       *)
(*   src/src/lib/dataUtils.ts   parseFile, processData, downloadCSV        *)
(*   src/src/App.tsx            the App component and handleFileUpload     *)
(*   src/unnamed/part_000       the BCGMatrix component                    *)
(*                                                                         *)
(* Conventions.                                                            *)
(*  - A JavaScript string is a sequence of one-character strings.  The     *)
(*    source's field names are Chinese; the model writes                   *)
(*      period = 数据年月, partner = 贸易伙伴名称, rmb = 人民币,           *)
(*      year = 年份, exportValue = 出口额, marketShare = 市场份额,         *)
(*      yoyGrowth = 同比增速, prevExport = 去年出口额.                     *)
(*  - A loosely typed raw field is a tagged value: Str(s), Num(n), Undef.  *)
(*  - Export amounts are integers (exact in a JavaScript Number below      *)
(*    2^53).  A quotient or product that need not be exact is a binary     *)
(*    floating-point number [m, e] of value m * 2^e, rounded to nearest,   *)
(*    ties to even, as IEEE-754 arithmetic does; the significand keeps     *)
(*    Precision bits where a Number keeps 53.                              *)
(***************************************************************************)
EXTENDS Integers, Sequences, FiniteSets

VARIABLES
    rawData,        \* App: useState<RawData[]>
    processedData,  \* App: useState<ProcessedData[]>
    loading,        \* App: useState(false)
    error,          \* App: useState<string | null>
    activeTab,      \* App: useState<'trend' | 'bcg' | 'data'>
    selectedYear,   \* App: useState<number | null>
    pending,        \* the file whose parseFile promise is not settled yet
    before,         \* rawData, processedData, selectedYear when the last upload started
    filters,        \* BCGMatrix: minShare, maxShare, countryFilter, yMin, yMax
    csv,            \* the rows handed to Papa.unparse by the last download
    stage           \* which step of the run was taken last

vars == <<rawData, processedData, loading, error, activeTab, selectedYear,
          pending, before, filters, csv, stage>>

-----------------------------------------------------------------------------
(* Bounds of the model *)

\* significand bits of the model's floating-point numbers
Precision == 10

\* longest array of raw records the pipeline is run on
MaxRows == 3

-----------------------------------------------------------------------------
(* Integers and sequences *)

Abs(n) == IF n < 0 THEN -n ELSE n

RECURSIVE Pow2(_)
Pow2(k) == IF k <= 0 THEN 1 ELSE 2 * Pow2(k - 1)

RECURSIVE Pow10(_)
Pow10(k) == IF k <= 0 THEN 1 ELSE 10 * Pow10(k - 1)

\* an array as a value: its elements computed once, as map and reduce leave them
Array(f) == SubSeq(f, 1, Len(f))

\* v is computed: a loop has the result of its earlier iterations in hand
\* before the next one starts
Computed(v) == v = v

-----------------------------------------------------------------------------
(* JavaScript values *)

Str(s) == [t |-> "str", s |-> s, n |-> 0]
Num(n) == [t |-> "num", s |-> <<>>, n |-> n]
Undef  == [t |-> "undef", s |-> <<>>, n |-> 0]

\* the result of a numeric parse: NaN, or a number
NaN     == [nan |-> TRUE, v |-> 0]
Val(n)  == [nan |-> FALSE, v |-> n]

Digits == <<"0", "1", "2", "3", "4", "5", "6", "7", "8", "9">>
IsDigit(c) == \E i \in 1..10 : Digits[i] = c
DigitVal(c) == (CHOOSE i \in 1..10 : Digits[i] = c) - 1
IsSpace(c) == c = " "

\* the decimal digits of a natural number
RECURSIVE NatToString(_)
NatToString(n) ==
    IF n < 10 THEN <<Digits[n + 1]>>
    ELSE NatToString(n \div 10) \o <<Digits[(n % 10) + 1]>>

\* String(v) of a raw field
JsString(v) ==
    CASE v.t = "str" -> v.s
      [] v.t = "num" -> IF v.n < 0 THEN <<"-">> \o NatToString(-v.n) ELSE NatToString(v.n)
      [] OTHER -> <<"u", "n", "d", "e", "f", "i", "n", "e", "d">>

\* String.prototype.substring(0, k)
Substring0(s, k) == SubSeq(s, 1, IF Len(s) < k THEN Len(s) ELSE k)

\* the value of a string of decimal digits
RECURSIVE DigitsValue(_)
DigitsValue(s) ==
    IF s = <<>> THEN 0
    ELSE 10 * DigitsValue(SubSeq(s, 1, Len(s) - 1)) + DigitVal(s[Len(s)])

\* the longest prefix of s made of decimal digits
RECURSIVE DigitPrefix(_)
DigitPrefix(s) ==
    IF s # <<>> /\ IsDigit(Head(s)) THEN <<Head(s)>> \o DigitPrefix(Tail(s)) ELSE <<>>

\* s without its leading white space
RECURSIVE TrimStart(_)
TrimStart(s) == IF s # <<>> /\ IsSpace(Head(s)) THEN TrimStart(Tail(s)) ELSE s

\* s without its trailing white space
RECURSIVE TrimEnd(_)
TrimEnd(s) ==
    IF s # <<>> /\ IsSpace(s[Len(s)]) THEN TrimEnd(SubSeq(s, 1, Len(s) - 1)) ELSE s

\* String.prototype.trim
Trim(s) == TrimEnd(TrimStart(s))

\* a signed run of decimal digits at the start of s, after white space: the
\* number it denotes, NaN when no digit is there
SignedDigits(s) ==
    LET t    == TrimStart(s)
        neg  == t # <<>> /\ Head(t) = "-"
        body == IF t # <<>> /\ Head(t) \in {"-", "+"} THEN Tail(t) ELSE t
        z    == DigitPrefix(body)
    IN  IF z = <<>> THEN NaN
        ELSE Val(IF neg THEN -DigitsValue(z) ELSE DigitsValue(z))

\* parseInt(s, 10)
parseInt(s) == SignedDigits(s)

\* parseFloat(s), for a string holding none of ".", "e", "E" and "Infinity",
\* the places where a decimal literal goes on after its first digits
parseFloat(s) == SignedDigits(s)

\* s.replace(/,/g, '')
StripCommas(s) == SelectSeq(s, LAMBDA c : c # ",")

-----------------------------------------------------------------------------
(* Binary floating point: [m, e] is m * 2^e, with m = 0 (and e = 0) or     *)
(* 2^(Precision-1) <= |m| < 2^Precision.                                   *)

FZero == [m |-> 0, e |-> 0]

\* a, d, e with the same a / d * 2^e and 2^(Precision-1) <= a / d < 2^Precision
RECURSIVE Normalise(_, _, _)
Normalise(a, d, e) ==
    IF a >= d * Pow2(Precision) THEN Normalise(a, 2 * d, e + 1)
    ELSE IF a < d * Pow2(Precision - 1) THEN Normalise(2 * a, d, e - 1)
    ELSE <<a, d, e>>

\* the integer nearest to a / d, the even one of two equally near
RoundHalfEven(a, d) ==
    LET q == a \div d
        r == a % d
    IN  IF 2 * r > d \/ (2 * r = d /\ q % 2 = 1) THEN q + 1 ELSE q

\* the floating-point number nearest to n / d * 2^e0, for d > 0
FloatOf(n, d, e0) ==
    IF n = 0 THEN FZero
    ELSE LET nz == Normalise(Abs(n), d, e0)
             q  == RoundHalfEven(nz[1], nz[2])
             m  == IF q = Pow2(Precision) THEN Pow2(Precision - 1) ELSE q
             e  == IF q = Pow2(Precision) THEN nz[3] + 1 ELSE nz[3]
         IN  [m |-> IF n < 0 THEN -m ELSE m, e |-> e]

\* x / y of two integers, y # 0
FDiv(x, y) == FloatOf(IF y < 0 THEN -x ELSE x, Abs(y), 0)

\* f * k of a floating-point number and an integer
FMulInt(f, k) == FloatOf(f.m * k, 1, f.e)

\* an integer as a floating-point number
FInt(k) == FloatOf(k, 1, 0)

\* f < g
FLess(f, g) ==
    IF f.m <= 0 /\ g.m > 0 THEN f.m < g.m
    ELSE IF f.m < 0 /\ g.m = 0 THEN TRUE
    ELSE IF f.m >= 0 /\ g.m <= 0 THEN FALSE
    ELSE IF f.m > 0 THEN f.e < g.e \/ (f.e = g.e /\ f.m < g.m)
    ELSE f.e > g.e \/ (f.e = g.e /\ f.m < g.m)

\* f <= g
FLeq(f, g) == f = g \/ FLess(f, g)

\* f + g
FAdd(f, g) ==
    LET e == IF f.m = 0 THEN g.e ELSE IF g.m = 0 THEN f.e
             ELSE IF f.e < g.e THEN f.e ELSE g.e
    IN  FloatOf(f.m * Pow2(f.e - e) + g.m * Pow2(g.e - e), 1, e)

\* the digits of n, padded on the left with "0" to at least k digits
RECURSIVE PadDigits(_, _)
PadDigits(n, k) ==
    IF k <= 1 THEN NatToString(n)
    ELSE PadDigits(n \div 10, k - 1) \o <<Digits[(n % 10) + 1]>>

\* Number.prototype.toFixed(digits), digits <= 2: the integer n nearest to
\* |f| * 10^digits (the larger of two equally near), written with its last
\* `digits` digits after the point, and "-" before it when f < 0
toFixed(f, digits) ==
    LET a == Abs(f.m)
        n == IF f.e >= 0 THEN a * Pow2(f.e) * Pow10(digits)
             ELSE IF Precision + f.e <= -8 THEN 0
             ELSE (2 * a * Pow10(digits) + Pow2(-f.e)) \div Pow2(1 - f.e)
    IN  (IF f.m < 0 THEN <<"-">> ELSE <<>>)
        \o NatToString(n \div Pow10(digits))
        \o (IF digits > 0 THEN <<".">> \o PadDigits(n % Pow10(digits), digits) ELSE <<>>)

-----------------------------------------------------------------------------
(* processData *)

\* a JavaScript value handed to processData: an array of records, or a value
\* that is no array (JSON.parse of "{}" or "null")
JsArray(rows) == [array |-> TRUE, rows |-> rows]
NotAnArray    == [array |-> FALSE, rows |-> <<>>]

\* 同比增速: number | null
Null       == [null |-> TRUE, f |-> FZero]
NotNull(f) == [null |-> FALSE, f |-> f]

\* the literal '未知'
Unknown == <<"Wei", "Zhi">>

\* let rmb = 0; ... the coerced export value of a raw record
CoerceRmb(row) ==
    CASE row.rmb.t = "undef" -> 0
      [] row.rmb.t = "str" ->
            LET p == parseFloat(StripCommas(row.rmb.s))
            IN  IF p.nan \/ p.v = 0 THEN 0 ELSE p.v
      [] OTHER -> row.rmb.n

\* parseInt(String(row.数据年月).substring(0, 4), 10)
ExtractYear(row) == parseInt(Substring0(JsString(row.period), 4))

\* row.贸易伙伴名称 || '未知'
PartnerName(row) ==
    IF row.partner.t = "str" /\ row.partner.s # <<>> THEN row.partner.s ELSE Unknown

\* KeepRow without the test
KeepEveryRow(row) == TRUE

\* .filter(row => !isNaN(row.年份)): a row is kept when its year is not NaN
KeepRow(row) == ~ExtractYear(row).nan

\* 1. Clean data and extract year
cleanedData(rawRows) ==
    LET kept == SelectSeq(rawRows, KeepRow)
    IN  Array([i \in 1..Len(kept) |-> [year        |-> ExtractYear(kept[i]).v,
                                 partner     |-> PartnerName(kept[i]),
                                 exportValue |-> CoerceRmb(kept[i])]])

\* `${curr.年份}-${curr.贸易伙伴名称}`
AggKey(curr) == JsString(Num(curr.year)) \o <<"-">> \o curr.partner

\* AggStep with "=" for "+=": the last record of a key wins
AggStepOverwrite(acc, curr) ==
    LET key == AggKey(curr)
        has == \E i \in 1..Len(acc) : acc[i].key = key
        a1  == IF has THEN acc
               ELSE Append(acc, [key |-> key,
                                 val |-> [year |-> curr.year, partner |-> curr.partner,
                                          exportValue |-> 0]])
    IN  [i \in 1..Len(a1) |->
            IF a1[i].key = key
            THEN [a1[i] EXCEPT !.val.exportValue = curr.exportValue]
            ELSE a1[i]]

\* one step of the reduce: acc is the object's entries in insertion order
AggStep(acc, curr) ==
    LET key == AggKey(curr)
        has == \E i \in 1..Len(acc) : acc[i].key = key
        a1  == IF has THEN acc
               ELSE Append(acc, [key |-> key,
                                 val |-> [year |-> curr.year, partner |-> curr.partner,
                                          exportValue |-> 0]])
    IN  Array([i \in 1..Len(a1) |->
            IF a1[i].key = key
            THEN [a1[i] EXCEPT !.val.exportValue = @ + curr.exportValue]
            ELSE a1[i]])

\* the reduce over cleaned[lo..hi] from acc, left to right: over the first half
\* of the range, then over the second half from the result of the first
RECURSIVE ReduceAgg(_, _, _, _)
ReduceAgg(acc, cleaned, lo, hi) ==
    IF lo > hi THEN acc
    ELSE IF lo = hi THEN AggStep(acc, cleaned[lo])
    ELSE LET mid  == (lo + hi) \div 2
             left == ReduceAgg(acc, cleaned, lo, mid)
         IN  IF Computed(left) THEN ReduceAgg(left, cleaned, mid + 1, hi) ELSE left

\* 2. Aggregate by Year and Country
aggregated(cleaned) == ReduceAgg(<<>>, cleaned, 1, Len(cleaned))

\* Object.values(aggregated)
aggregatedArray(cleaned) ==
    LET acc == aggregated(cleaned) IN Array([i \in 1..Len(acc) |-> acc[i].val])

\* acc[curr.年份] = (acc[curr.年份] || 0) + curr.出口额: acc is the object's
\* entries, a year and its total each
TotalStep(acc, curr) ==
    IF \E i \in 1..Len(acc) : acc[i].year = curr.year
    THEN Array([i \in 1..Len(acc) |->
            IF acc[i].year = curr.year
            THEN [acc[i] EXCEPT !.total = @ + curr.exportValue]
            ELSE acc[i]])
    ELSE Append(acc, [year |-> curr.year, total |-> 0 + curr.exportValue])

\* the reduce over arr[lo..hi] from acc, left to right
RECURSIVE ReduceTotal(_, _, _, _)
ReduceTotal(acc, arr, lo, hi) ==
    IF lo > hi THEN acc
    ELSE IF lo = hi THEN TotalStep(acc, arr[lo])
    ELSE LET mid  == (lo + hi) \div 2
             left == ReduceTotal(acc, arr, lo, mid)
         IN  IF Computed(left) THEN ReduceTotal(left, arr, mid + 1, hi) ELSE left

\* 3. Global total per year
globalTotal(arr) == ReduceTotal(<<>>, arr, 1, Len(arr))

\* Divisor with the total of the first year met, whatever the row's year
DivisorFirstYear(totals, year) ==
    IF totals[1].total = 0 THEN 1 ELSE totals[1].total

\* globalTotal[year] || 1
Divisor(totals, year) ==
    LET i == CHOOSE j \in 1..Len(totals) : totals[j].year = year
    IN  IF totals[i].total = 0 THEN 1 ELSE totals[i].total

\* withMarketShare with share 0 in a year whose total is zero
withMarketShareZeroTotal(arr) ==
    LET totals == globalTotal(arr)
        total(y) == totals[CHOOSE j \in 1..Len(totals) : totals[j].year = y].total
    IN  Array([i \in 1..Len(arr) |->
            [year |-> arr[i].year, partner |-> arr[i].partner,
             exportValue |-> arr[i].exportValue,
             marketShare |-> IF total(arr[i].year) = 0 THEN FZero
                             ELSE FDiv(arr[i].exportValue, total(arr[i].year))]])

\* 4. Calculate Market Share
withMarketShare(arr) ==
    LET totals == globalTotal(arr)
    IN  Array([i \in 1..Len(arr) |->
            [year |-> arr[i].year, partner |-> arr[i].partner,
             exportValue |-> arr[i].exportValue,
             marketShare |-> FDiv(arr[i].exportValue, Divisor(totals, arr[i].year))]])

\* withMarketShare.find(r => r.年份 === row.年份 - 1 && r.贸易伙伴名称 === row.贸易伙伴名称)
IsPrevYearRow(r, row) == r.year = row.year - 1 /\ r.partner = row.partner

\* prevYearRow ? prevYearRow.出口额 : 0
PrevExport(shared, row) ==
    IF \E i \in 1..Len(shared) : IsPrevYearRow(shared[i], row)
    THEN LET i == CHOOSE j \in 1..Len(shared) :
                    /\ IsPrevYearRow(shared[j], row)
                    /\ \A k \in 1..(j - 1) : ~IsPrevYearRow(shared[k], row)
         IN  shared[i].exportValue
    ELSE 0

\* YoyGrowth without Math.abs
YoyGrowthNoAbs(exportValue, prevExport) ==
    IF prevExport # 0
    THEN NotNull(FDiv(exportValue - prevExport, prevExport))
    ELSE Null

\* YoyGrowth with 0 for null
YoyGrowthZero(exportValue, prevExport) ==
    IF prevExport # 0
    THEN NotNull(FDiv(exportValue - prevExport, Abs(prevExport)))
    ELSE NotNull(FZero)

\* if (prevExport !== 0) yoyGrowth = (row.出口额 - prevExport) / Math.abs(prevExport)
YoyGrowth(exportValue, prevExport) ==
    IF prevExport # 0
    THEN NotNull(FDiv(exportValue - prevExport, Abs(prevExport)))
    ELSE Null

\* 5. Calculate YoY Growth
finalData(shared) ==
    Array([i \in 1..Len(shared) |->
        [year |-> shared[i].year, partner |-> shared[i].partner,
         exportValue |-> shared[i].exportValue,
         marketShare |-> shared[i].marketShare,
         prevExport  |-> PrevExport(shared, shared[i]),
         yoyGrowth   |-> YoyGrowth(shared[i].exportValue, PrevExport(shared, shared[i]))]])

\* CompareYearExport without the export values
CompareYearOnly(a, b) == a.year - b.year

\* CompareYearExport with the export values the other way round
CompareYearExportAscending(a, b) ==
    IF a.year # b.year THEN a.year - b.year ELSE a.exportValue - b.exportValue

\* the comparator of step 6: negative when a sorts before b
CompareYearExport(a, b) ==
    IF a.year # b.year THEN a.year - b.year ELSE b.exportValue - a.exportValue

\* x put into the sorted array s: after the last element it does not sort before
InsertFinal(s, x) ==
    LET notAfter == {i \in 1..Len(s) : CompareYearExport(x, s[i]) >= 0}
        p == IF notAfter = {} THEN 0
             ELSE CHOOSE i \in notAfter : \A j \in notAfter : j <= i
    IN  SubSeq(s, 1, p) \o <<x>> \o SubSeq(s, p + 1, Len(s))

\* rows[lo..hi] put one after the other into the sorted array s
RECURSIVE InsertRange(_, _, _, _)
InsertRange(s, rows, lo, hi) ==
    IF lo > hi THEN s
    ELSE IF lo = hi THEN InsertFinal(s, rows[lo])
    ELSE LET mid  == (lo + hi) \div 2
             left == InsertRange(s, rows, lo, mid)
         IN  IF Computed(left) THEN InsertRange(left, rows, mid + 1, hi) ELSE left

\* 6. Sort by Year ASC, Export DESC (Array.prototype.sort is a stable sort)
SortFinal(rows) == InsertRange(<<>>, rows, 1, Len(rows))

processData(rawRows) ==
    SortFinal(finalData(withMarketShare(aggregatedArray(cleanedData(rawRows)))))

-----------------------------------------------------------------------------
(* The pipeline run on its own: every array of at most MaxRows raw records *)

RawRecord(period, partner, rmb) == [period |-> period, partner |-> partner, rmb |-> rmb]

\* raw records as a CSV, spreadsheet or JSON file yields them
RawRecords ==
    { RawRecord(Num(202301), Str(<<"A">>), Str(<<"1", ",", "0", "0", "0">>)),
      RawRecord(Num(202301), Str(<<"B">>), Num(500)),
      RawRecord(Num(202201), Str(<<"A">>), Num(800)),
      RawRecord(Str(<<"i", "n", "v", "a", "l", "i", "d">>), Str(<<"A">>), Num(5)),
      RawRecord(Str(<<"2", "0", "2", "3", "-", "0", "5">>), Undef, Str(<<"a", "b", "c">>)),
      RawRecord(Str(<<"2", "0", "2", "2">>), Str(<<"B">>), Num(-500)),
      RawRecord(Str(<<"2", "0", "2", "2", "1", "2">>), Str(<<"B">>), Str(<<"5", "0", "0">>)),
      RawRecord(Str(<<"2", "0", "2", "3">>), Str(<<"C">>), Str(<<" ", "5", "0", "0", "x">>)),
      RawRecord(Undef, Str(<<"C">>), Num(300)),
      RawRecord(Str(<<"2", "0", "x", "3", "0", "1">>), Str(<<"A">>), Num(7)),
      RawRecord(Num(202206), Str(<<"C">>), Num(500)) }

RawArrays == UNION { [1..n -> RawRecords] : n \in 0..MaxRows }

NullYear == [null |-> TRUE, v |-> 0]
Year(y)  == [null |-> FALSE, v |-> y]

\* error === null
NoError == "<null>"

DefaultFilters ==
    [yMin |-> -1, yMax |-> 3, minShare |-> 0, maxShare |-> 100, countryFilter |-> <<>>]

NoSnapshot == [rawData |-> JsArray(<<>>), processedData |-> <<>>, selectedYear |-> NullYear]

PipeInit ==
    /\ rawData \in { JsArray(rows) : rows \in RawArrays }
    /\ processedData = <<>>
    /\ loading = FALSE
    /\ error = NoError
    /\ activeTab = "trend"
    /\ selectedYear = NullYear
    /\ pending = <<>>
    /\ before = NoSnapshot
    /\ filters = DefaultFilters
    /\ csv = <<>>
    /\ stage = "input"

\* const processed = processData(parsed)
RunProcessData ==
    /\ stage = "input"
    /\ processedData' = processData(rawData.rows)
    /\ stage' = "processed"
    /\ UNCHANGED <<rawData, loading, error, activeTab, selectedYear, pending, before,
                   filters, csv>>

PipeNext == RunProcessData

PipeSpec == PipeInit /\ [][PipeNext]_vars

-----------------------------------------------------------------------------
(* downloadCSV *)

\* `${(x * 100).toFixed(digits)}%`
PercentString(f, digits) == toFixed(FMulInt(f, 100), digits) \o <<"%">>

\* one object of csvData: its keys in the order written, with their values
\* (年份, 贸易伙伴名称, 市场份额, 同比增速, 市场份额_展示, 同比增速_展示)
CsvRow(row) ==
    << <<"year", row.year>>,
       <<"partner", row.partner>>,
       <<"marketShare", row.marketShare>>,
       <<"yoyGrowth", row.yoyGrowth.f>>,
       <<"marketShareDisplay", PercentString(row.marketShare, 2)>>,
       <<"yoyGrowthDisplay",
         IF ~row.yoyGrowth.null THEN PercentString(row.yoyGrowth.f, 1) ELSE <<>>>> >>

\* HasGrowth without the test
HasGrowthOrNot(r) == TRUE

\* r => r.同比增速 !== null
HasGrowth(r) == ~r.yoyGrowth.null

\* data.filter(r => r.同比增速 !== null).map(row => ({...})): the rows Papa.unparse writes
csvData(data) ==
    LET kept == SelectSeq(data, HasGrowth)
    IN  Array([i \in 1..Len(kept) |-> CsvRow(kept[i])])

-----------------------------------------------------------------------------
(* BCGMatrix: the plotted set *)

\* filtered.slice(0, 35)
PlotLimit == 35

\* label: index < 20 ? d.贸易伙伴名称 : ''
LabelLimit == 20

\* the full-width comma of the split pattern /[,，]/
FullWidthComma == "FWComma"

\* countryFilter.split(/[,，]/): the pieces between commas
RECURSIVE SplitCommas(_)
SplitCommas(s) ==
    IF \A i \in 1..Len(s) : s[i] \notin {",", FullWidthComma} THEN <<s>>
    ELSE LET p == CHOOSE i \in 1..Len(s) :
                     /\ s[i] \in {",", FullWidthComma}
                     /\ \A j \in 1..(i - 1) : s[j] \notin {",", FullWidthComma}
         IN  <<SubSeq(s, 1, p - 1)>> \o SplitCommas(SubSeq(s, p + 1, Len(s)))

\* countryFilter.split(/[,，]/).map(k => k.trim()).filter(k => k)
Keywords(countryFilter) ==
    LET parts == SplitCommas(countryFilter)
    IN  SelectSeq([i \in 1..Len(parts) |-> Trim(parts[i])], LAMBDA k : k # <<>>)

\* String.prototype.includes
Includes(s, k) ==
    \E i \in 0..(Len(s) - Len(k)) : SubSeq(s, i + 1, i + Len(k)) = k

\* d.年份 === year && d.同比增速 !== null && d.市场份额 > 0
InYearWithGrowth(d, year) ==
    d.year = year /\ ~d.yoyGrowth.null /\ FLess(FZero, d.marketShare)

\* sharePct >= minShare && sharePct <= maxShare
InShareRange(d, f) ==
    LET sharePct == FMulInt(d.marketShare, 100)
    IN  FLeq(FInt(f.minShare), sharePct) /\ FLeq(sharePct, FInt(f.maxShare))

\* the country filter: none when it holds no keyword
MatchesCountry(d, f) ==
    LET keywords == Keywords(f.countryFilter)
    IN  (Trim(f.countryFilter) # <<>> /\ Len(keywords) > 0) =>
            \E i \in 1..Len(keywords) : Includes(d.partner, keywords[i])

\* the three filters together
PassesFilters(d, year, f) ==
    InYearWithGrowth(d, year) /\ InShareRange(d, f) /\ MatchesCountry(d, f)

\* x put into the array s sorted by export value, descending
InsertByExport(s, x) ==
    LET notAfter == {i \in 1..Len(s) : s[i].exportValue - x.exportValue >= 0}
        p == IF notAfter = {} THEN 0
             ELSE CHOOSE i \in notAfter : \A j \in notAfter : j <= i
    IN  SubSeq(s, 1, p) \o <<x>> \o SubSeq(s, p + 1, Len(s))

\* rows[lo..hi] put one after the other into the array s sorted by export value
RECURSIVE InsertRangeByExport(_, _, _, _)
InsertRangeByExport(s, rows, lo, hi) ==
    IF lo > hi THEN s
    ELSE IF lo = hi THEN InsertByExport(s, rows[lo])
    ELSE LET mid  == (lo + hi) \div 2
             left == InsertRangeByExport(s, rows, lo, mid)
         IN  IF Computed(left) THEN InsertRangeByExport(left, rows, mid + 1, hi)
             ELSE left

\* filtered.sort((a, b) => b.出口额 - a.出口额)
SortByExport(rows) == InsertRangeByExport(<<>>, rows, 1, Len(rows))

\* TopFiltered without the slice
TopFilteredUncut(data, year, f) ==
    SortByExport(SelectSeq(data, LAMBDA d : PassesFilters(d, year, f)))

\* the filtered, sorted and cut array
TopFiltered(data, year, f) ==
    LET filtered == SelectSeq(data, LAMBDA d : PassesFilters(d, year, f))
        sorted   == SortByExport(filtered)
    IN  SubSeq(sorted, 1, IF Len(sorted) < PlotLimit THEN Len(sorted) ELSE PlotLimit)

\* the reduce over rows[lo..hi] from sum, left to right
RECURSIVE ReduceShare(_, _, _, _)
ReduceShare(sum, rows, lo, hi) ==
    IF lo > hi THEN sum
    ELSE IF lo = hi THEN FAdd(sum, rows[lo].marketShare)
    ELSE LET mid  == (lo + hi) \div 2
             left == ReduceShare(sum, rows, lo, mid)
         IN  IF Computed(left) THEN ReduceShare(left, rows, mid + 1, hi) ELSE left

\* filtered.reduce((sum, d) => sum + d.市场份额, 0)
ShareTotal(rows) == ReduceShare(FZero, rows, 1, Len(rows))

\* calculatedXRef: the mean share of the plotted records
XRef(rows) ==
    LET sum == ShareTotal(rows) IN FloatOf(sum.m, Len(rows), sum.e)

\* Math.max(yMin, Math.min(d.同比增速, yMax))
YPlot(growth, f) ==
    LET low == IF FLess(FInt(f.yMax), growth) THEN FInt(f.yMax) ELSE growth
    IN  IF FLess(low, FInt(f.yMin)) THEN FInt(f.yMin) ELSE low

\* the quadrant colour
Fill(isHighShare, isHighGrowth) ==
    IF isHighShare /\ isHighGrowth THEN "#10b981"
    ELSE IF ~isHighShare /\ isHighGrowth THEN "#f59e0b"
    ELSE IF isHighShare /\ ~isHighGrowth THEN "#3b82f6"
    ELSE "#ef4444"

\* index < 20 ? d.贸易伙伴名称 : '' (index counts from 0, i from 1)
Label(d, i) == IF i - 1 < LabelLimit THEN d.partner ELSE <<>>

\* plotData of the useMemo
plotData(data, year, f) ==
    LET top  == TopFiltered(data, year, f)
        xRef == XRef(top)
    IN  Array([i \in 1..Len(top) |->
            [year |-> top[i].year, partner |-> top[i].partner,
             exportValue |-> top[i].exportValue, marketShare |-> top[i].marketShare,
             prevExport |-> top[i].prevExport, yoyGrowth |-> top[i].yoyGrowth,
             yPlot |-> YPlot(top[i].yoyGrowth.f, f),
             label |-> Label(top[i], i),
             fill  |-> Fill(~FLess(top[i].marketShare, xRef),
                            ~FLess(YPlot(top[i].yoyGrowth.f, f), FZero))]])

-----------------------------------------------------------------------------
(* The application: App, handleFileUpload, parseFile, the BCG view *)

\* partners of the large dataset
NumPartners == 37

\* the large dataset: every partner with a record in 2022 and one in 2023
BigRows ==
    [k \in 1..(2 * NumPartners) |->
        IF k <= NumPartners
        THEN RawRecord(Num(202201), Str(<<"P">> \o NatToString(k)),
                       Num(20 + ((k * 7) % 11)))
        ELSE RawRecord(Str(<<"2", "0", "2", "3", "1", "2">>),
                       Str(<<"P">> \o NatToString(k - NumPartners)),
                       Str(NatToString(10 + (((k - NumPartners) * 5) % 17))))]

\* a small dataset: two partners over two years, and a record without a year
SmallRows ==
    << RawRecord(Num(202301), Str(<<"A">>), Str(<<"1", ",", "0", "0", "0">>)),
       RawRecord(Num(202301), Str(<<"B">>), Num(500)),
       RawRecord(Num(202201), Str(<<"A">>), Num(800)),
       RawRecord(Str(<<"i", "n", "v", "a", "l", "i", "d">>), Str(<<"A">>), Num(5)),
       RawRecord(Num(202201), Str(<<"B">>), Num(-400)),
       RawRecord(Num(202101), Str(<<"B">>), Num(100)) >>

\* records none of which has a year
InvalidRows ==
    << RawRecord(Str(<<"i", "n", "v", "a", "l", "i", "d">>), Str(<<"A">>), Num(5)),
       RawRecord(Undef, Undef, Undef) >>

\* the contents a readable file may hold
Datasets == { <<>>, SmallRows, InvalidRows, BigRows }

\* a file the user may choose: the extension of its name, whether it can be
\* read, whether its content parses, and the value the parser yields then
File(ext, readable, parses, value) ==
    [ext |-> ext, readable |-> readable, parses |-> parses, value |-> value]

Files ==
    { File(ext, TRUE, TRUE, JsArray(rows)) :
          ext \in {"json", "JSON", "csv", "xlsx"}, rows \in Datasets }
    \cup { File("json", TRUE, TRUE, NotAnArray) }
    \cup { File(ext, TRUE, FALSE, NotAnArray) : ext \in {"json", "xlsx", "xls"} }
    \cup { File(ext, FALSE, TRUE, JsArray(SmallRows)) : ext \in {"json", "csv", "xlsx"} }
    \cup { File("txt", TRUE, TRUE, JsArray(SmallRows)) }

\* file.name.split('.').pop()?.toLowerCase()
Extension(file) == IF file.ext = "JSON" THEN "json" ELSE file.ext

\* how the promise parseFile returns settles: "resolve", "reject", or "never"
\* (a FileReader that fails fires no onload, and no onerror is set)
ParseOutcome(file) ==
    CASE Extension(file) = "json" ->
            IF ~file.readable THEN "never"
            ELSE IF file.parses THEN "resolve" ELSE "reject"
      [] Extension(file) = "csv" ->
            IF file.readable THEN "resolve" ELSE "reject"
      [] Extension(file) \in {"xlsx", "xls"} ->
            IF ~file.readable THEN "never"
            ELSE IF file.parses THEN "resolve" ELSE "reject"
      [] OTHER -> "reject"

\* err.message || 'Failed to parse file'
RejectMessage(file) ==
    CASE Extension(file) \notin {"json", "csv", "xlsx", "xls"} -> "Unsupported file format"
      [] Extension(file) = "json" -> "Unexpected token in JSON"
      [] Extension(file) = "csv" -> "Failed to parse file"
      [] OTHER -> "File is corrupted"

\* Array.from(new Set(processed.map(d => d.年份))).sort((a, b) => a - b)
availableYears(data) == {data[i].year : i \in 1..Len(data)}

\* years[0] for years[years.length - 1]
EarliestYear(data) ==
    CHOOSE y \in availableYears(data) : \A z \in availableYears(data) : y <= z

\* years[years.length - 1]
LatestYear(data) ==
    CHOOSE y \in availableYears(data) : \A z \in availableYears(data) : z <= y

\* {selectedYear && <BCGMatrix .../>} on the 'bcg' tab of the loaded view
BcgMounted(tab, data, sel) ==
    tab = "bcg" /\ data # <<>> /\ ~sel.null /\ sel.v # 0

\* the plotted set of the mounted BCG view
CurrentPlot == plotData(processedData, selectedYear.v, filters)

Init ==
    /\ rawData = JsArray(<<>>)
    /\ processedData = <<>>
    /\ loading = FALSE
    /\ error = NoError
    /\ activeTab = "trend"
    /\ selectedYear = NullYear
    /\ pending = <<>>
    /\ before = NoSnapshot
    /\ filters = DefaultFilters
    /\ csv = <<>>
    /\ stage = "init"

\* handleFileUpload with a file input that is not disabled while loading
HandleFileUploadWhileLoading(file) ==
    /\ processedData = <<>>
    /\ loading' = TRUE
    /\ error' = NoError
    /\ pending' = <<file>>
    /\ before' = [rawData |-> rawData, processedData |-> processedData,
                  selectedYear |-> selectedYear]
    /\ stage' = "upload"
    /\ UNCHANGED <<rawData, processedData, activeTab, selectedYear, filters, csv>>

\* handleFileUpload up to its await; the file input is rendered while
\* processedData is empty and is disabled while loading
HandleFileUpload(file) ==
    /\ processedData = <<>>
    /\ ~loading
    /\ loading' = TRUE
    /\ error' = NoError
    /\ pending' = <<file>>
    /\ before' = [rawData |-> rawData, processedData |-> processedData,
                  selectedYear |-> selectedYear]
    /\ stage' = "upload"
    /\ UNCHANGED <<rawData, processedData, activeTab, selectedYear, filters, csv>>

\* handleFileUpload after its await: parseFile resolved with an array
UploadSucceeds ==
    /\ pending # <<>>
    /\ ParseOutcome(pending[1]) = "resolve"
    /\ pending[1].value.array
    /\ LET parsed    == pending[1].value
           processed == processData(parsed.rows)
       IN  /\ rawData' = parsed
           /\ processedData' = processed
           /\ selectedYear' = IF processed # <<>> THEN Year(LatestYear(processed))
                              ELSE selectedYear
    /\ loading' = FALSE
    /\ pending' = <<>>
    /\ stage' = "succeeded"
    /\ UNCHANGED <<error, activeTab, before, filters, csv>>

\* handleFileUpload after its await: parseFile resolved with a value that is no
\* array, and processData throws a TypeError after setRawData
UploadThrows ==
    /\ pending # <<>>
    /\ ParseOutcome(pending[1]) = "resolve"
    /\ ~pending[1].value.array
    /\ rawData' = pending[1].value
    /\ error' = "rawData.map is not a function"
    /\ loading' = FALSE
    /\ pending' = <<>>
    /\ stage' = "failed"
    /\ UNCHANGED <<processedData, activeTab, selectedYear, before, filters, csv>>

\* handleFileUpload after its await: parseFile rejected
UploadRejected ==
    /\ pending # <<>>
    /\ ParseOutcome(pending[1]) = "reject"
    /\ error' = RejectMessage(pending[1])
    /\ loading' = FALSE
    /\ pending' = <<>>
    /\ stage' = "failed"
    /\ UNCHANGED <<rawData, processedData, activeTab, selectedYear, before, filters, csv>>

\* onClick={() => setActiveTab(...)}; BCGMatrix loses its state when unmounted
SetActiveTab(tab) ==
    /\ processedData # <<>>
    /\ tab # activeTab
    /\ activeTab' = tab
    /\ filters' = DefaultFilters
    /\ stage' = "tab"
    /\ UNCHANGED <<rawData, processedData, loading, error, selectedYear, pending,
                   before, csv>>

\* <option value={y}>: the value of an option is the string of its year
OptionValue(y) == JsString(Num(y))

\* Number(s) of a string: the integer a sign and decimal digits denote, 0 for
\* the empty string, NaN for any other string (no option value has a point or
\* an exponent)
JsNumber(s) ==
    LET t    == Trim(s)
        body == IF t # <<>> /\ Head(t) \in {"-", "+"} THEN Tail(t) ELSE t
    IN  IF t = <<>> THEN Val(0)
        ELSE IF body # <<>> /\ \A i \in 1..Len(body) : IsDigit(body[i])
        THEN Val(IF Head(t) = "-" THEN -DigitsValue(body) ELSE DigitsValue(body))
        ELSE NaN

\* selectedYear after setSelectedYear(n)
YearState(n) == IF n.nan THEN [null |-> FALSE, v |-> 0, nan |-> TRUE] ELSE Year(n.v)

\* onChange={(e) => setSelectedYear(Number(e.target.value))}: the user picks
\* the option of the year y
SetSelectedYear(y) ==
    /\ processedData # <<>>
    /\ activeTab = "bcg"
    /\ y \in availableYears(processedData)
    /\ selectedYear' = YearState(JsNumber(OptionValue(y)))
    /\ filters' = IF BcgMounted(activeTab, processedData,
                                YearState(JsNumber(OptionValue(y))))
                  THEN filters
                  ELSE DefaultFilters
    /\ stage' = "year"
    /\ UNCHANGED <<rawData, processedData, loading, error, activeTab, pending,
                   before, csv>>

\* handleDownload
HandleDownload ==
    /\ processedData # <<>>
    /\ csv' = csvData(processedData)
    /\ stage' = "download"
    /\ UNCHANGED <<rawData, processedData, loading, error, activeTab, selectedYear,
                   pending, before, filters>>

\* the control panel of BCGMatrix is rendered while plotData is not empty
PanelShown == BcgMounted(activeTab, processedData, selectedYear) /\ CurrentPlot # <<>>

MinShares == {0, 3}
MaxShares == {100, 3}
YMins == {-1, 0}
YMaxs == {3, 1}
CountryFilters ==
    { <<>>, <<"P", "1">>, <<" ", "A", " ", FullWidthComma, "P", "3", ",">>, <<" ", ",">> }

\* one of the five inputs of the control panel changes
SetFilter(f) ==
    /\ f # filters
    /\ \/ f = [filters EXCEPT !.minShare = f.minShare]
       \/ f = [filters EXCEPT !.maxShare = f.maxShare]
       \/ f = [filters EXCEPT !.countryFilter = f.countryFilter]
       \/ f = [filters EXCEPT !.yMin = f.yMin]
       \/ f = [filters EXCEPT !.yMax = f.yMax]
    /\ PanelShown
    /\ filters' = f
    /\ stage' = "filter"
    /\ UNCHANGED <<rawData, processedData, loading, error, activeTab, selectedYear,
                   pending, before, csv>>

\* the button shown in place of an empty plot
ResetFilters ==
    /\ BcgMounted(activeTab, processedData, selectedYear)
    /\ CurrentPlot = <<>>
    /\ filters' = DefaultFilters
    /\ stage' = "reset"
    /\ UNCHANGED <<rawData, processedData, loading, error, activeTab, selectedYear,
                   pending, before, csv>>

FilterSettings ==
    [yMin : YMins, yMax : YMaxs, minShare : MinShares, maxShare : MaxShares,
     countryFilter : CountryFilters]

Next ==
    \/ \E file \in Files : HandleFileUpload(file)
    \/ UploadSucceeds
    \/ UploadThrows
    \/ UploadRejected
    \/ \E tab \in {"trend", "bcg", "data"} : SetActiveTab(tab)
    \/ \E y \in availableYears(processedData) : SetSelectedYear(y)
    \/ HandleDownload
    \/ \E f \in FilterSettings : SetFilter(f)
    \/ ResetFilters

Spec == Init /\ [][Next]_vars

\* UploadSucceeds can run: the state predicate ENABLED <<UploadSucceeds>>_vars
CanSucceed ==
    /\ pending # <<>>
    /\ ParseOutcome(pending[1]) = "resolve"
    /\ pending[1].value.array

\* a settled promise has its callbacks run, and the continuation of the await
\* runs once the promise of parseFile is settled: weak fairness of the three
\* continuations, that of UploadSucceeds with CanSucceed for its ENABLED
FairSpec ==
    /\ Spec
    /\ WF_vars(UploadThrows)
    /\ WF_vars(UploadRejected)
    /\ ([]<>(~CanSucceed) \/ []<><<UploadSucceeds>>_vars)

-----------------------------------------------------------------------------
(* Claims about processData, checked under PipeSpec *)

Processed == stage = "processed"

\* the sum of a sequence of integers
RECURSIVE SumSeq(_)
SumSeq(s) == IF s = <<>> THEN 0 ELSE Head(s) + SumSeq(Tail(s))

\* the years of the output and of the raw records
YearsOf(out, rows) ==
    {out[i].year : i \in 1..Len(out)}
        \cup {ExtractYear(rows[i]).v : i \in {j \in 1..Len(rows) : ~ExtractYear(rows[j]).nan}}

\* the sum of the export values of the output records of year y
OutputExportSum(out, y) ==
    SumSeq([i \in 1..Len(out) |-> IF out[i].year = y THEN out[i].exportValue ELSE 0])

\* the sum of the coerced export values of the raw records whose year is y
RawExportSum(rows, y) ==
    SumSeq([i \in 1..Len(rows) |->
               IF ExtractYear(rows[i]) = Val(y) THEN CoerceRmb(rows[i]) ELSE 0])

\* C1: for every year, the export values of the output records of that year
\* sum to the sum of the coerced export values of the raw records of that year.
C1_ExportSumPerYear ==
    Processed =>
        \A y \in YearsOf(processedData, rawData.rows) :
            OutputExportSum(processedData, y) = RawExportSum(rawData.rows, y)

\* C1 witness: a run that merged two raw records of one (year, partner) pair, one
\* of them with a textual amount, into one output record.
C1_Witness ==
    /\ Processed
    /\ \E i, j \in 1..Len(rawData.rows) :
          /\ i < j
          /\ KeepRow(rawData.rows[i]) /\ KeepRow(rawData.rows[j])
          /\ ExtractYear(rawData.rows[i]) = ExtractYear(rawData.rows[j])
          /\ PartnerName(rawData.rows[i]) = PartnerName(rawData.rows[j])
          /\ rawData.rows[i].rmb.t = "str" /\ CoerceRmb(rawData.rows[i]) # 0
          /\ CoerceRmb(rawData.rows[j]) # 0
    /\ Len(processedData) = 2

\* the indices of the output records of year y
RecordsOfYear(out, y) == {i \in 1..Len(out) : out[i].year = y}

\* the exponent all the shares of a set of records can be written with
ShareScale(out, idx) ==
    LET need == {Precision} \cup {-out[i].marketShare.e : i \in idx}
    IN  CHOOSE k \in need : \A j \in need : j <= k

\* the exact sum of the market shares of the records idx, in units of 2^-k
RECURSIVE ShareSum(_, _, _)
ShareSum(out, idx, k) ==
    IF idx = {} THEN 0
    ELSE LET i == CHOOSE j \in idx : TRUE
         IN  out[i].marketShare.m * Pow2(out[i].marketShare.e + k)
                 + ShareSum(out, idx \ {i}, k)

\* the sum of |export value| over the records idx
RECURSIVE AbsExportSum(_, _)
AbsExportSum(out, idx) ==
    IF idx = {} THEN 0
    ELSE LET i == CHOOSE j \in idx : TRUE
         IN  Abs(out[i].exportValue) + AbsExportSum(out, idx \ {i})

\* the total export value of year y in the output
YearTotal(out, y) == OutputExportSum(out, y)

C3_GrowthFromPreviousYear ==
    Processed =>
        \A i, j \in 1..Len(processedData) :
            LET r == processedData[i]
                q == processedData[j]
            IN  (q.year = r.year - 1 /\ q.partner = r.partner /\ q.exportValue # 0) =>
                    /\ r.yoyGrowth
                         = NotNull(FDiv(r.exportValue - q.exportValue, Abs(q.exportValue)))
                    /\ r.prevExport = q.exportValue

\* C3 witness: a partner with a negative export value one year and a record the
\* year after.
C3_Witness ==
    /\ Processed
    /\ \E i, j \in 1..Len(processedData) :
          /\ processedData[j].year = processedData[i].year - 1
          /\ processedData[j].partner = processedData[i].partner
          /\ processedData[j].exportValue < 0
          /\ ~processedData[i].yoyGrowth.null

\* C4: the growth of an output record of (Y, P) is null exactly when no record
\* of (Y - 1, P) exists or that record's export value is zero; a record whose
\* growth is null holds null, not the number 0.
C4_GrowthNullIffNoBaseline ==
    Processed =>
        \A i \in 1..Len(processedData) :
            LET r == processedData[i]
                baseline == \E j \in 1..Len(processedData) :
                                /\ processedData[j].year = r.year - 1
                                /\ processedData[j].partner = r.partner
                                /\ processedData[j].exportValue # 0
            IN  /\ r.yoyGrowth.null <=> ~baseline
                /\ ~baseline => r.yoyGrowth = Null /\ r.yoyGrowth # NotNull(FZero)

\* C4 witness: a record with a nonzero export value whose partner has a record
\* of the year before with export value zero.
C4_Witness ==
    /\ Processed
    /\ \E i, j \in 1..Len(processedData) :
          /\ processedData[j].year = processedData[i].year - 1
          /\ processedData[j].partner = processedData[i].partner
          /\ processedData[j].exportValue = 0
          /\ processedData[i].exportValue # 0
          /\ processedData[i].yoyGrowth = Null

\* C5: the output is ordered by year ascending and, within a year, by export
\* value descending.
C5_OutputOrdered ==
    Processed =>
        \A i \in 1..(Len(processedData) - 1) :
            LET a == processedData[i]
                b == processedData[i + 1]
            IN  a.year < b.year \/ (a.year = b.year /\ a.exportValue >= b.exportValue)

\* C5 witness: an output of two years, two records in one of them with
\* different export values, from raw records met in another order.
C5_Witness ==
    /\ Processed
    /\ Len(processedData) = 3
    /\ processedData[1].year < processedData[2].year
    /\ processedData[2].year = processedData[3].year
    /\ processedData[2].exportValue > processedData[3].exportValue
    /\ ExtractYear(rawData.rows[1]).v = processedData[3].year
    /\ PartnerName(rawData.rows[1]) = processedData[3].partner

\* the first four characters of the period hold no integer: after white space
\* and a sign, no digit comes first
NoYearInPeriod(row) ==
    LET t    == TrimStart(Substring0(JsString(row.period), 4))
        body == IF t # <<>> /\ Head(t) \in {"-", "+"} THEN Tail(t) ELSE t
    IN  body = <<>> \/ ~IsDigit(Head(body))

\* the array without its i-th element
RemoveAt(s, i) == SubSeq(s, 1, i - 1) \o SubSeq(s, i + 1, Len(s))

-----------------------------------------------------------------------------
(* Claims about the application, checked under Spec and FairSpec *)

\* C7 as claimed: whenever an upload ends in failure, with an error message
\* set, rawData, processedData and selectedYear have the values they had
\* before that upload started.
C7_FailedUploadLeavesState ==
    stage = "failed" =>
        /\ error # NoError
        /\ rawData = before.rawData
        /\ processedData = before.processedData
        /\ selectedYear = before.selectedYear

\* C8 as claimed: every started upload eventually finishes, loading is false
\* again and the application never stays in the loading state.
C8_UploadEventuallyFinishes == loading ~> ~loading

\* the indices of the records of data with a growth
GrowthIndices(data) == {i \in 1..Len(data) : ~data[i].yoyGrowth.null}

\* the k-th of the indices idx, in increasing order
NthIndex(idx, k) == CHOOSE i \in idx : Cardinality({j \in idx : j <= i}) = k

\* |f| * scale, rounded down
ScaledDown(f, scale) ==
    IF f.e >= 0 THEN scale * Abs(f.m) * Pow2(f.e)
    ELSE IF -f.e > 30 THEN 0
    ELSE (scale * Abs(f.m)) \div Pow2(-f.e)

\* s is the number 100 * f written with a sign when f < 0, at least one digit,
\* a point, exactly `decimals` digits and a percent sign; the number written
\* is 100 * f within the rounding of the product and of the last digit
IsPercentOf(s, f, decimals) ==
    LET neg   == s # <<>> /\ Head(s) = "-"
        body  == IF neg THEN Tail(s) ELSE s
        n     == Len(body)
        whole == SubSeq(body, 1, n - decimals - 2)
        frac  == SubSeq(body, n - decimals, n - 1)
    IN  /\ n >= decimals + 3
        /\ body[n] = "%"
        /\ body[n - decimals - 1] = "."
        /\ \A i \in 1..Len(whole) : IsDigit(whole[i])
        /\ \A i \in 1..Len(frac) : IsDigit(frac[i])
        /\ neg <=> f.m < 0
        /\ LET written == DigitsValue(whole \o frac)
               exact   == ScaledDown(f, 100 * Pow10(decimals))
           IN  Abs(written - exact) <= 3 + exact \div Pow2(Precision - 1)

\* C9: the rows written by downloadCSV are the records of its input with a
\* growth, one row each in input order, and every row has the six fields year,
\* partner, market share, growth, market share as a percentage with two
\* decimals and growth as a percentage with one decimal, in this order.
C9_CsvRowsAreGrowthRecords ==
    stage = "download" =>
        LET idx == GrowthIndices(processedData)
        IN  /\ Len(csv) = Cardinality(idx)
            /\ \A k \in 1..Len(csv) :
                  LET r   == processedData[NthIndex(idx, k)]
                      row == csv[k]
                  IN  /\ Len(row) = 6
                      /\ row[1] = <<"year", r.year>>
                      /\ row[2] = <<"partner", r.partner>>
                      /\ row[3] = <<"marketShare", r.marketShare>>
                      /\ row[4] = <<"yoyGrowth", r.yoyGrowth.f>>
                      /\ row[5][1] = "marketShareDisplay"
                      /\ IsPercentOf(row[5][2], r.marketShare, 2)
                      /\ row[6][1] = "yoyGrowthDisplay"
                      /\ IsPercentOf(row[6][2], r.yoyGrowth.f, 1)

\* C9 witness: a download of records some of which have no growth, one of
\* them before a record that is written, and a negative growth among the rows.
C9_Witness ==
    /\ stage = "download"
    /\ csv # <<>>
    /\ \E i, j \in 1..Len(processedData) :
          i < j /\ processedData[i].yoyGrowth.null /\ ~processedData[j].yoyGrowth.null
    /\ \E k \in 1..Len(csv) : Head(csv[k][6][2]) = "-"

\* the indices of the records of the loaded data that pass the filters of the
\* BCG view
PassingIndices ==
    {i \in 1..Len(processedData) :
        PassesFilters(processedData[i], selectedYear.v, filters)}

\* C10: the plotted set holds at most 35 records, all of the selected year, in
\* descending order of export value; they are records that pass the filters,
\* each once, as many as pass up to 35, and no passing record left out has a
\* higher export value than a plotted one; a record has a label only at one
\* of the first 20 positions.
C10_PlotIsTopOfFiltered ==
    BcgMounted(activeTab, processedData, selectedYear) =>
        LET plot == CurrentPlot
            pass == PassingIndices
        IN  /\ Len(plot) <= 35
            /\ Len(plot) = IF Cardinality(pass) < 35 THEN Cardinality(pass) ELSE 35
            /\ \A i \in 1..Len(plot) : plot[i].year = selectedYear.v
            /\ \A i \in 1..(Len(plot) - 1) :
                  plot[i].exportValue >= plot[i + 1].exportValue
            /\ \A i \in 1..Len(plot) :
                  \E j \in pass :
                      /\ processedData[j].partner = plot[i].partner
                      /\ processedData[j].year = plot[i].year
                      /\ processedData[j].exportValue = plot[i].exportValue
            /\ \A i, j \in 1..Len(plot) : i # j => plot[i].partner # plot[j].partner
            /\ \A j \in pass :
                  (\A i \in 1..Len(plot) : plot[i].partner # processedData[j].partner)
                      => \A i \in 1..Len(plot) :
                             plot[i].exportValue >= processedData[j].exportValue
            /\ \A i \in 1..Len(plot) : plot[i].label # <<>> => i <= 20

\* C10 witness: more than 35 records pass the filters, 35 are plotted, a
\* passing record with a lower export value is left out, and the 20th plotted
\* record has a label while the 21st has none.
C10_Witness ==
    /\ BcgMounted(activeTab, processedData, selectedYear)
    /\ Cardinality(PassingIndices) > 35
    /\ Len(CurrentPlot) = 35
    /\ \E j \in PassingIndices :
          processedData[j].exportValue < CurrentPlot[35].exportValue
    /\ CurrentPlot[20].label # <<>>
    /\ CurrentPlot[21].label = <<>>

-----------------------------------------------------------------------------
(* Further claims about processData, checked under PipeSpec *)

\* C11 as claimed: every record returned by processData has a non-negative
\* export value, whatever the raw records are.
C11_ExportNonNegative ==
    Processed => \A i \in 1..Len(processedData) : processedData[i].exportValue >= 0

IsNumber(f, x) ==
    IF f.e <= 0 THEN f.m = x * Pow2(-f.e)
    ELSE 2 * Abs(f.m * Pow2(f.e) - x) <= Pow2(f.e)

-----------------------------------------------------------------------------
(* Further claims about the application, checked under Spec *)

\* C13: in every state reached by uploads and year selections, selectedYear is
\* null or a year of the loaded records; right after an upload that succeeded
\* with at least one record it is the greatest year of these records.
C13_SelectedYearAmongYears ==
    /\ \/ selectedYear = NullYear
       \/ \E i \in 1..Len(processedData) : selectedYear = Year(processedData[i].year)
    /\ (stage = "succeeded" /\ processedData # <<>>) =>
           /\ ~selectedYear.null
           /\ \A i \in 1..Len(processedData) : processedData[i].year <= selectedYear.v

\* C13 witness: the user has selected a year that is not the latest one of
\* loaded records of three years.
C13_Witness ==
    /\ stage = "year"
    /\ ~selectedYear.null
    /\ \E i \in 1..Len(processedData) : processedData[i].year > selectedYear.v
    /\ Cardinality({processedData[i].year : i \in 1..Len(processedData)}) = 3

-----------------------------------------------------------------------------
(* Claims about processData and the order of its input, checked under PipeSpec *)

\* the permutations of 1..n
Permutations(n) == {p \in [1..n -> 1..n] : \A i, j \in 1..n : p[i] = p[j] => i = j}

\* the array rows in the order p
Permuted(rows, p) == Array([i \in 1..Len(rows) |-> rows[p[i]]])

\* the records of an output, as a set
RecordSet(out) == {out[i] : i \in 1..Len(out)}

\* C14 as claimed: for every permutation of the raw records, processData
\* returns the same sequence of records.
C14_SameSequenceForPermutations ==
    Processed =>
        \A p \in Permutations(Len(rawData.rows)) :
            processData(Permuted(rawData.rows, p)) = processedData

\* C14: for every permutation of the raw records, processData returns the
\* same records, as many, with the same year and export value at every
\* position; the sequence is the same when no two records of a year have the
\* same export value.
C14_SameRecordsForPermutations ==
    Processed =>
        \A p \in Permutations(Len(rawData.rows)) :
            LET out == processData(Permuted(rawData.rows, p))
            IN  /\ Len(out) = Len(processedData)
                /\ RecordSet(out) = RecordSet(processedData)
                /\ \A i \in 1..Len(out) :
                      /\ out[i].year = processedData[i].year
                      /\ out[i].exportValue = processedData[i].exportValue
                /\ (\A i, j \in 1..Len(processedData) :
                        (/\ i # j
                         /\ processedData[i].year = processedData[j].year)
                            => processedData[i].exportValue # processedData[j].exportValue)
                       => out = processedData

\* C14 witness: three raw records that give two output records, and an order
\* of the raw records for which processData returns these two the other way
\* round.
C14_Witness ==
    /\ Processed
    /\ Len(rawData.rows) = 3
    /\ Len(processedData) = 2
    /\ \E p \in Permutations(Len(rawData.rows)) :
          LET out == processData(Permuted(rawData.rows, p))
          IN  out # processedData /\ out[1] = processedData[2]

------------------------------------------------------------------------------
(* C15: one upload at a time, checked under Spec *)

\* C15: at most one upload is in progress at any time. loading is true
\* exactly while one file is being handled, an upload starts only when none is
\* in progress, processedData changes only in the step that commits the one
\* upload in progress and then equals processData of that file's records, and
\* after a successful upload processedData is processData of the records of
\* the file just uploaded, whatever an earlier upload left.
C15_OneUploadAtATime ==
    /\ [](Len(pending) <= 1 /\ (loading <=> pending # <<>>))
    /\ [](stage = "succeeded" =>
              rawData.array /\ processedData = processData(rawData.rows))
    /\ [][(pending' # <<>> /\ pending' # pending) =>
              (~loading /\ pending = <<>>)]_vars
    /\ [][processedData' # processedData =>
              /\ pending # <<>>
              /\ pending' = <<>>
              /\ pending[1].value.array
              /\ rawData' = pending[1].value
              /\ processedData' = processData(pending[1].value.rows)]_vars

\* C15 witness: a second upload has committed. The upload before it left
\* records of which none was valid, and processedData now holds the result of
\* the second file alone.
C15_Witness ==
    /\ stage = "succeeded"
    /\ ~loading
    /\ before.rawData.array
    /\ before.rawData.rows = InvalidRows
    /\ rawData.array
    /\ rawData.rows = SmallRows
    /\ processedData = processData(SmallRows)
    /\ processedData # <<>>

=============================================================================
